---- MODULE Spec2Model ----
(***************************************************************************)
(* Model of unicode-title-case: the build script (build.rs) that turns     *)
(* SpecialCasing.txt and UnicodeData.txt into TITLECASE_TABLE, and the     *)
(* runtime of src/lib.rs (table lookup, tr/az exception, CaseMappingIter). *)
(*                                                                         *)
(* Text is modelled as sequences of one-character strings, so that the     *)
(* string comparisons of build.rs and the hexadecimal conversions          *)
(* (u32::from_str_radix, {:X}, the \u{...} escapes of the generated file)  *)
(* are computed and not assumed.                                           *)
(***************************************************************************)
EXTENDS Integers, Sequences, FiniteSets, TLC

VARIABLES
    phase,            \* position of build.rs main / the crate: "sc", "base", "done", "aborted", "compiled", "compile_error"
    data,             \* build.rs `data`: BTreeMap<char, [&str; 3]> as a key-sorted sequence of <<key, slots>>
    scCount,          \* number of SpecialCasing.txt lines consumed
    baseCount,        \* number of UnicodeData.txt lines consumed
    cur,              \* the line consumed by the last line step: [file, line]
    emitted,          \* the generated casing.rs: sequence of <<key text, <<slot text, slot text, slot text>>>>
    TITLECASE_TABLE,  \* the static table of lib.rs: sequence of <<key, <<c0, c1, c2>>>>
    call,             \* the last call: [op, c, out, flag]; out is the returned array, or <<c>> / <<>> for Some(c) / None
    iter,             \* a CaseMappingIter value: [tag, chars]
    orig,             \* the sequence the iterator held when it was constructed
    fronts,           \* codepoints returned by next since construction, in call order
    backs,            \* codepoints returned by next_back since construction, in call order
    input             \* the string the last string-level call was made on, as a sequence of codepoints

vars == <<phase, data, scCount, baseCount, cur, emitted, TITLECASE_TABLE, call,
          iter, orig, fronts, backs, input>>

builderVars == <<data, scCount, baseCount, cur, emitted>>
iterVars == <<iter, orig, fronts, backs>>

----------------------------------------------------------------------------
(* Program constants *)

NUL == 0
SMALL_I == 105
CAPITAL_I_DOT == 304
MAX_CHAR == 1114111
SURROGATE_LO == 55296
SURROGATE_HI == 57343
MAX_ESCAPE_DIGITS == 6
CAPITAL_I == 73
SMALL_DOTLESS_I == 305

(* Bounds of the model *)

MaxScLines == 2
MaxBaseLines == 2
MaxTableLen == 4
MaxStrLen == 2

----------------------------------------------------------------------------
(* Text primitives of the standard library, as build.rs uses them *)

Err == -1

\* char::to_digit(16)
to_digit(ch) ==
    CASE ch = "0" -> 0 [] ch = "1" -> 1 [] ch = "2" -> 2 [] ch = "3" -> 3
      [] ch = "4" -> 4 [] ch = "5" -> 5 [] ch = "6" -> 6 [] ch = "7" -> 7
      [] ch = "8" -> 8 [] ch = "9" -> 9
      [] ch \in {"a", "A"} -> 10 [] ch \in {"b", "B"} -> 11
      [] ch \in {"c", "C"} -> 12 [] ch \in {"d", "D"} -> 13
      [] ch \in {"e", "E"} -> 14 [] ch \in {"f", "F"} -> 15
      [] OTHER -> Err

RECURSIVE HexDigits(_, _)
\* accumulate the digits of s onto acc; Err on a non-digit.  A value above
\* char::MAX is kept as MAX_CHAR + 1: char::from_u32 rejects every such value,
\* and the unwrap panics on it exactly as it does on a u32 overflow.
HexDigits(s, acc) ==
    IF s = <<>> THEN acc
    ELSE LET d == to_digit(Head(s))
         IN IF d = Err THEN Err
            ELSE IF acc * 16 + d > MAX_CHAR THEN HexDigits(Tail(s), MAX_CHAR + 1)
            ELSE HexDigits(Tail(s), acc * 16 + d)

\* u32::from_str_radix(s, 16): empty and a lone sign are errors, a leading "+" is accepted
from_str_radix(s) ==
    IF s = <<>> THEN Err
    ELSE IF Len(s) = 1 /\ Head(s) \in {"+", "-"} THEN Err
    ELSE IF Head(s) = "+" THEN HexDigits(Tail(s), 0)
    ELSE HexDigits(s, 0)

\* char::from_u32: None (Err) for surrogates and values above char::MAX
from_u32(v) ==
    IF v = Err \/ v > MAX_CHAR \/ (v >= SURROGATE_LO /\ v <= SURROGATE_HI) THEN Err ELSE v

\* char::from_u32(u32::from_str_radix(s, 16).unwrap()).unwrap(); Err stands for the panic
ParseCodePoint(s) == from_u32(from_str_radix(s))

RECURSIVE SplitFrom(_, _, _)
\* str::split(sep): the fields of s, acc being the field under construction
SplitFrom(s, sep, acc) ==
    IF s = <<>> THEN <<acc>>
    ELSE IF Head(s) = sep THEN <<acc>> \o SplitFrom(Tail(s), sep, <<>>)
    ELSE SplitFrom(Tail(s), sep, Append(acc, Head(s)))

Split(s, sep) == SplitFrom(s, sep, <<>>)

RECURSIVE NonEmpty(_)
NonEmpty(ss) ==
    IF ss = <<>> THEN <<>>
    ELSE IF Head(ss) = <<>> THEN NonEmpty(Tail(ss))
    ELSE <<Head(ss)>> \o NonEmpty(Tail(ss))

\* str::split_ascii_whitespace: the non-empty runs between whitespace
split_ascii_whitespace(s) == NonEmpty(Split(s, " "))

RECURSIVE FormatHexFrom(_)
FormatHexFrom(n) ==
    IF n = 0 THEN <<>>
    ELSE Append(FormatHexFrom(n \div 16),
                <<"0","1","2","3","4","5","6","7","8","9","A","B","C","D","E","F">>[(n % 16) + 1])

\* format!("{:X}", n)
FormatHex(n) == IF n = 0 THEN <<"0">> ELSE FormatHexFrom(n)

RECURSIVE StripUnderscores(_)
StripUnderscores(s) ==
    IF s = <<>> THEN <<>>
    ELSE IF Head(s) = "_" THEN StripUnderscores(Tail(s))
    ELSE <<Head(s)>> \o StripUnderscores(Tail(s))

\* the value of the char literal '\u{s}' in the generated file, Err when it does not compile
EscapeValue(s) ==
    IF s = <<>> \/ Head(s) = "_" THEN Err
    ELSE LET ds == StripUnderscores(s)
         IN IF Len(ds) = 0 \/ Len(ds) > MAX_ESCAPE_DIGITS THEN Err
            ELSE IF \E i \in 1..Len(ds) : to_digit(ds[i]) = Err THEN Err
            ELSE from_u32(HexDigits(ds, 0))

----------------------------------------------------------------------------
(* build.rs: the BTreeMap `data`, kept as a sequence sorted by key *)

None == <<>>

\* BTreeMap::get: the slots stored for key k, None when k is no key
BTreeGet(m, k) ==
    IF \E i \in 1..Len(m) : m[i][1] = k
    THEN (m[CHOOSE i \in 1..Len(m) : m[i][1] = k])[2]
    ELSE None

\* a map that forgets the key order: the new entry goes last
BTreeInsertAtEnd(m, k, v) ==
    IF \E i \in 1..Len(m) : m[i][1] = k
    THEN [i \in 1..Len(m) |-> IF m[i][1] = k THEN <<k, v>> ELSE m[i]]
    ELSE Append(m, <<k, v>>)

\* BTreeMap::insert: replaces the value of an existing key, else inserts in key order
BTreeInsert(m, k, v) ==
    IF \E i \in 1..Len(m) : m[i][1] = k
    THEN [i \in 1..Len(m) |-> IF m[i][1] = k THEN <<k, v>> ELSE m[i]]
    ELSE LET n == Cardinality({i \in 1..Len(m) : m[i][1] < k})
         IN SubSeq(m, 1, n) \o <<<<k, v>>>> \o SubSeq(m, n + 1, Len(m))

\* a conflict check that looks at the first slot only
ScAssertFirstSlotOnly(old, tccp0, tccp1, tccp2) == old[1] = tccp0

\* the three assert_eq! of the SpecialCasing pass: TRUE when none panics
ScAssertEq(old, tccp0, tccp1, tccp2) ==
    /\ old[1] = tccp0
    /\ old[2] = tccp1
    /\ old[3] = tccp2

\* the three assert_eq! of the UnicodeData pass: TRUE when none panics
BaseAssertEq(old, last_cp) ==
    /\ old[1] = last_cp
    /\ old[2] = <<"0">>
    /\ old[3] = <<"0">>

\* Iterator::take(3).step_by(2) over the fields: the fields at indices 0 and 2
TakeStep(fields) ==
    IF Len(fields) >= 3 THEN <<fields[1], fields[3]>> ELSE <<fields[1]>>

\* the filter of the SpecialCasing pass: comment lines and empty lines are dropped
ScKept(line) == ~(line # <<>> /\ Head(line) = "#") /\ line # <<>>

\* the closure of the SpecialCasing pass on one kept line: the map afterwards,
\* and whether an unwrap or an assert_eq! panicked
ScRecord(d, line) ==
    LET l == TakeStep(Split(line, ";"))
    IN IF Len(l) < 2 THEN [data |-> d, panic |-> TRUE]
       ELSE LET code_point == l[1]
                tccp == split_ascii_whitespace(l[2])
            IN IF tccp = <<>> \/ code_point = tccp[1] THEN [data |-> d, panic |-> FALSE]
               ELSE LET cp == ParseCodePoint(code_point)
                        tccp0 == tccp[1]
                        tccp1 == IF Len(tccp) >= 2 THEN tccp[2] ELSE <<"0">>
                        tccp2 == IF Len(tccp) >= 3 THEN tccp[3] ELSE <<"0">>
                        old == BTreeGet(d, cp)
                    IN IF cp = Err THEN [data |-> d, panic |-> TRUE]
                       ELSE [data |-> BTreeInsert(d, cp, <<tccp0, tccp1, tccp2>>),
                             panic |-> old # None /\ ~ScAssertEq(old, tccp0, tccp1, tccp2)]

\* a UnicodeData closure that parses the source codepoint before the filter
BaseRecordEager(d, line) ==
    LET fields == Split(line, ";")
        cp == ParseCodePoint(fields[1])
        rest == Tail(fields)
    IN IF cp = Err THEN [data |-> d, panic |-> TRUE]
       ELSE IF rest = <<>> \/ rest[Len(rest)] = <<>> \/ fields[1] = rest[Len(rest)]
       THEN [data |-> d, panic |-> FALSE]
       ELSE LET last_cp == rest[Len(rest)]
                old == BTreeGet(d, cp)
            IN [data |-> BTreeInsert(d, cp, <<last_cp, <<"0">>, <<"0">>>>),
                panic |-> old # None /\ ~BaseAssertEq(old, last_cp)]

\* the closure of the UnicodeData pass on one line
BaseRecord(d, line) ==
    LET fields == Split(line, ";")
        cp_text == fields[1]
        rest == Tail(fields)
    IN IF rest = <<>> \/ rest[Len(rest)] = <<>> \/ cp_text = rest[Len(rest)]
       THEN [data |-> d, panic |-> FALSE]
       ELSE LET last_cp == rest[Len(rest)]
                cp == ParseCodePoint(cp_text)
                old == BTreeGet(d, cp)
            IN IF cp = Err THEN [data |-> d, panic |-> TRUE]
               ELSE [data |-> BTreeInsert(d, cp, <<last_cp, <<"0">>, <<"0">>>>),
                     panic |-> old # None /\ ~BaseAssertEq(old, last_cp)]

\* the lines written to casing.rs, one per entry in the map's iteration order
FormatTable(d) == [i \in 1..Len(d) |-> <<FormatHex(d[i][1]), d[i][2]>>]

\* include!(".../casing.rs"): the value of every char literal of the generated table
CompileEntry(e) ==
    <<EscapeValue(e[1]), <<EscapeValue(e[2][1]), EscapeValue(e[2][2]), EscapeValue(e[2][3])>>>>

Compiles(e) ==
    /\ EscapeValue(e[1]) # Err
    /\ \A j \in 1..3 : EscapeValue(e[2][j]) # Err

----------------------------------------------------------------------------
(* The lines the two input files are drawn from.  SpecialCasing.txt records *)
(* are  code; lower; title; upper; (condition_list;)? # comment             *)
(* and UnicodeData.txt records have fifteen fields, the last one being the  *)
(* simple titlecase mapping.                                                *)

\* # SpecialCasing
ScComment ==
    <<"#"," ","S","p","e","c","i","a","l","C","a","s","i","n","g">>

\* (an empty line)
ScBlank ==
    <<>>

\* 00DF; 00DF; 0053 0073; 0053 0053; # SHARP S
ScSharpS ==
    <<"0","0","D","F",";"," ","0","0","D","F",";"," ","0","0","5","3"," ","0","0","7","3",";"," ","0","0","5","3"," ","0","0","5","3",";"," ","#"," ","S","H","A","R","P"," ","S">>

\* 00DF; 00DF; 0053; 0053; # SHARP S
ScSharpSOneSlot ==
    <<"0","0","D","F",";"," ","0","0","D","F",";"," ","0","0","5","3",";"," ","0","0","5","3",";"," ","#"," ","S","H","A","R","P"," ","S">>

\* FB04; FB04; 0046 0066 006C; 0046 0046 004C; # FFL
ScLigature ==
    <<"F","B","0","4",";"," ","F","B","0","4",";"," ","0","0","4","6"," ","0","0","6","6"," ","0","0","6","C",";"," ","0","0","4","6"," ","0","0","4","6"," ","0","0","4","C",";"," ","#"," ","F","F","L">>

\* 01C4; 01C6; 01C5; 01C4; # DZ
ScDz ==
    <<"0","1","C","4",";"," ","0","1","C","6",";"," ","0","1","C","5",";"," ","0","1","C","4",";"," ","#"," ","D","Z">>

\* 0069; 0069; 0130; 0130; tr; # i
ScTurkishI ==
    <<"0","0","6","9",";"," ","0","0","6","9",";"," ","0","1","3","0",";"," ","0","1","3","0",";"," ","t","r",";"," ","#"," ","i">>

\* 0307; 0307; ; ; tr After_Soft_Dotted; # DOT
ScDotAbove ==
    <<"0","3","0","7",";"," ","0","3","0","7",";"," ",";"," ",";"," ","t","r"," ","A","f","t","e","r","_","S","o","f","t","_","D","o","t","t","e","d",";"," ","#"," ","D","O","T">>

\* 0130; 0069 0307; 0130; 0130; # I DOT
ScSelf ==
    <<"0","1","3","0",";"," ","0","0","6","9"," ","0","3","0","7",";"," ","0","1","3","0",";"," ","0","1","3","0",";"," ","#"," ","I"," ","D","O","T">>

\* 00e9; 00e9; 00E9; 00E9; # E ACUTE
ScSelfLowerHex ==
    <<"0","0","e","9",";"," ","0","0","e","9",";"," ","0","0","E","9",";"," ","0","0","E","9",";"," ","#"," ","E"," ","A","C","U","T","E">>

\* G0; G0; ; ; # bad
ScBadCodeNoTitle ==
    <<"G","0",";"," ","G","0",";"," ",";"," ",";"," ","#"," ","b","a","d">>

\* G0; G0; 0041; 0041; # bad
ScBadCode ==
    <<"G","0",";"," ","G","0",";"," ","0","0","4","1",";"," ","0","0","4","1",";"," ","#"," ","b","a","d">>

\* 00DF; 00DF
ScTwoFields ==
    <<"0","0","D","F",";"," ","0","0","D","F">>

\* 0061;N;Ll;0;L;;;;;N;;;0041;;0041
UdSmallA ==
    <<"0","0","6","1",";","N",";","L","l",";","0",";","L",";",";",";",";",";","N",";",";",";","0","0","4","1",";",";","0","0","4","1">>

\* 0041;N;Ll;0;L;;;;;N;;;;0061;
UdCapitalA ==
    <<"0","0","4","1",";","N",";","L","l",";","0",";","L",";",";",";",";",";","N",";",";",";",";","0","0","6","1",";">>

\* 01C4;N;Ll;0;L;;;;;N;;;01C4;01C6;01C5
UdDz ==
    <<"0","1","C","4",";","N",";","L","l",";","0",";","L",";",";",";",";",";","N",";",";",";","0","1","C","4",";","0","1","C","6",";","0","1","C","5">>

\* 00DF;N;Ll;0;L;;;;;N;;;0053;;0053
UdSharpS ==
    <<"0","0","D","F",";","N",";","L","l",";","0",";","L",";",";",";",";",";","N",";",";",";","0","0","5","3",";",";","0","0","5","3">>

\* 0069;N;Ll;0;L;;;;;N;;;0049;;0049
UdSmallI ==
    <<"0","0","6","9",";","N",";","L","l",";","0",";","L",";",";",";",";",";","N",";",";",";","0","0","4","9",";",";","0","0","4","9">>

\* 00e9;N;Ll;0;L;;;;;N;;;00E9;;00E9
UdSelfLowerHex ==
    <<"0","0","e","9",";","N",";","L","l",";","0",";","L",";",";",";",";",";","N",";",";",";","0","0","E","9",";",";","0","0","E","9">>

\* D800;N;Ll;0;L;;;;;N;;;;;
UdSurrogateNoTitle ==
    <<"D","8","0","0",";","N",";","L","l",";","0",";","L",";",";",";",";",";","N",";",";",";",";",";">>

\* D800;N;Ll;0;L;;;;;N;;;;;0041
UdSurrogate ==
    <<"D","8","0","0",";","N",";","L","l",";","0",";","L",";",";",";",";",";","N",";",";",";",";",";","0","0","4","1">>

\* G1;N;Ll;0;L;;;;;N;;;;;
UdBadCodeNoTitle ==
    <<"G","1",";","N",";","L","l",";","0",";","L",";",";",";",";",";","N",";",";",";",";",";">>

\* G1;N;Ll;0;L;;;;;N;;;0041;;0041
UdBadCode ==
    <<"G","1",";","N",";","L","l",";","0",";","L",";",";",";",";",";","N",";",";",";","0","0","4","1",";",";","0","0","4","1">>

\* 0041
UdOneField ==
    <<"0","0","4","1">>

\* (an empty line)
UdBlank ==
    <<>>

\* 0062;N;Ll;0;L;;;;;N;;;;;zz
UdBadTitle ==
    <<"0","0","6","2",";","N",";","L","l",";","0",";","L",";",";",";",";",";","N",";",";",";",";",";","z","z">>

\* 0053;N;Lu;0;L;;;;;N;;;;0073;0054
UdCapitalS ==
    <<"0","0","5","3",";","N",";","L","u",";","0",";","L",";",";",";",";",";","N",";",";",";",";","0","0","7","3",";","0","0","5","4">>

ScLines ==
    {ScComment, ScBlank, ScSharpS, ScSharpSOneSlot, ScLigature, ScDz, ScTurkishI, ScDotAbove, ScSelf, ScSelfLowerHex, ScBadCodeNoTitle, ScBadCode, ScTwoFields}

BaseLines ==
    {UdSmallA, UdCapitalA, UdDz, UdSharpS, UdSmallI, UdSelfLowerHex, UdSurrogateNoTitle, UdSurrogate, UdBadCodeNoTitle, UdBadCode, UdOneField, UdBlank, UdBadTitle,
     UdCapitalS}

----------------------------------------------------------------------------
(* src/lib.rs: lookups in TITLECASE_TABLE *)

RECURSIVE SearchLoop(_, _, _, _)
\* the halving loop of slice::binary_search_by: base is 0-based, size the window left
SearchLoop(t, c, base, size) ==
    IF size > 1
    THEN LET half == size \div 2
             mid == base + half
         IN SearchLoop(t, c, IF t[mid + 1][1] > c THEN base ELSE mid, size - half)
    ELSE base

\* a search that never moves its window to the right
binary_search_left_only(t, c) ==
    IF Len(t) = 0 THEN [found |-> FALSE, index |-> 0]
    ELSE [found |-> t[1][1] = c, index |-> 0]

\* TITLECASE_TABLE.binary_search_by(|&(key, _)| key.cmp(&c)): Ok(index) or Err(index)
binary_search_by(t, c) ==
    IF Len(t) = 0 THEN [found |-> FALSE, index |-> 0]
    ELSE LET base == SearchLoop(t, c, 0, Len(t))
         IN IF t[base + 1][1] = c THEN [found |-> TRUE, index |-> base]
            ELSE [found |-> FALSE, index |-> base + (IF t[base + 1][1] < c THEN 1 ELSE 0)]

to_titlecase(t, c) ==
    LET r == binary_search_by(t, c)
    IN IF r.found THEN t[r.index + 1][2] ELSE <<c, NUL, NUL>>

\* a tr/az lookup without the exception for U+0069
to_titlecase_tr_or_az_no_exception(t, c) == to_titlecase(t, c)

to_titlecase_tr_or_az(t, c) ==
    IF c = SMALL_I THEN <<CAPITAL_I_DOT, NUL, NUL>> ELSE to_titlecase(t, c)

is_titlecase(t, c) == ~binary_search_by(t, c).found

----------------------------------------------------------------------------
(* src/lib.rs: CaseMappingIter *)

Zero == [tag |-> "Zero", chars |-> <<>>]
One(c) == [tag |-> "One", chars |-> <<c>>]
Two(b, c) == [tag |-> "Two", chars |-> <<b, c>>]
Three(a, b, c) == [tag |-> "Three", chars |-> <<a, b, c>>]

\* a constructor that forgets the inner test of chars[1]
CaseMappingIter_new_no_inner_test(chars) ==
    IF chars[3] = NUL THEN Two(chars[1], chars[2])
    ELSE Three(chars[1], chars[2], chars[3])

CaseMappingIter_new(chars) ==
    IF chars[3] = NUL
    THEN IF chars[2] = NUL THEN One(chars[1]) ELSE Two(chars[1], chars[2])
    ELSE Three(chars[1], chars[2], chars[3])

\* a next_back that gives the front element of a Two
next_back_front_of_two(it) ==
    CASE it.tag = "Three" -> [iter |-> Two(it.chars[1], it.chars[2]), ret |-> <<it.chars[3]>>]
      [] it.tag = "Two" -> [iter |-> One(it.chars[2]), ret |-> <<it.chars[1]>>]
      [] it.tag = "One" -> [iter |-> Zero, ret |-> <<it.chars[1]>>]
      [] OTHER -> [iter |-> it, ret |-> <<>>]

\* Iterator::next: the state afterwards and the Option returned
next(it) ==
    CASE it.tag = "Three" -> [iter |-> Two(it.chars[2], it.chars[3]), ret |-> <<it.chars[1]>>]
      [] it.tag = "Two" -> [iter |-> One(it.chars[2]), ret |-> <<it.chars[1]>>]
      [] it.tag = "One" -> [iter |-> Zero, ret |-> <<it.chars[1]>>]
      [] OTHER -> [iter |-> it, ret |-> <<>>]

\* DoubleEndedIterator::next_back
next_back(it) ==
    CASE it.tag = "Three" -> [iter |-> Two(it.chars[1], it.chars[2]), ret |-> <<it.chars[3]>>]
      [] it.tag = "Two" -> [iter |-> One(it.chars[1]), ret |-> <<it.chars[2]>>]
      [] it.tag = "One" -> [iter |-> Zero, ret |-> <<it.chars[1]>>]
      [] OTHER -> [iter |-> it, ret |-> <<>>]

\* Iterator::size_hint: both ends of the hint are this number
size_hint(it) ==
    CASE it.tag = "Three" -> 3
      [] it.tag = "Two" -> 2
      [] it.tag = "One" -> 1
      [] OTHER -> 0

----------------------------------------------------------------------------
(* Inputs of the runtime *)

\* the codepoints the character-level calls are made with
QueryChars == {0, 65, 97, 105, 223, 233, 304, 452, 64260}

\* the keys and mappings the tables of SpecLookup are made of
TableKeys == {0, 97, 105, 223, 452, 64260}
Mappings == {<<73, 0, 0>>, <<83, 115, 0>>, <<70, 102, 108>>}

\* the codepoints the arrays handed to CaseMappingIter::new are made of
IterChars == {0, 70, 102}

RECURSIVE SortedSeqOf(_)
\* the table with the entries of the function f, in ascending key order
SortedSeqOf(f) ==
    IF DOMAIN f = {} THEN <<>>
    ELSE LET k == CHOOSE x \in DOMAIN f : \A y \in DOMAIN f : x <= y
         IN <<<<k, f[k]>>>> \o SortedSeqOf([x \in DOMAIN f \ {k} |-> f[x]])

\* every table of at most MaxTableLen entries sorted strictly ascending by key
SortedTables ==
    UNION { {SortedSeqOf(f) : f \in [K -> Mappings]} :
            K \in {K \in SUBSET TableKeys : Cardinality(K) <= MaxTableLen} }

\* every CaseMappingIter value over IterChars
IterStates ==
    {Zero} \cup {One(c) : c \in IterChars}
           \cup {Two(b, c) : b \in IterChars, c \in IterChars}
           \cup {Three(a, b, c) : a \in IterChars, b \in IterChars, c \in IterChars}

NoCall == [op |-> "none", c |-> NUL, out |-> <<>>, flag |-> FALSE]
NoLine == [file |-> "none", line |-> <<>>]

----------------------------------------------------------------------------
(* build.rs main, one step per line of input *)

InitBuild ==
    /\ phase = "sc"
    /\ data = <<>>
    /\ scCount = 0
    /\ baseCount = 0
    /\ cur = NoLine
    /\ emitted = <<>>
    /\ TITLECASE_TABLE = <<>>
    /\ call = NoCall
    /\ iter = Zero
    /\ orig = <<>>
    /\ fronts = <<>>
    /\ backs = <<>>
    /\ input = <<>>

\* one line of SpecialCasing.txt goes through the filter and the closure
ReadScLine ==
    /\ phase = "sc"
    /\ scCount < MaxScLines
    /\ \E line \in ScLines :
         LET r == IF ScKept(line) THEN ScRecord(data, line)
                  ELSE [data |-> data, panic |-> FALSE]
         IN /\ data' = r.data
            /\ phase' = IF r.panic THEN "aborted" ELSE "sc"
            /\ cur' = [file |-> "sc", line |-> line]
    /\ scCount' = scCount + 1
    /\ UNCHANGED <<input, baseCount, emitted, TITLECASE_TABLE, call, iter, orig, fronts, backs>>

\* SpecialCasing.txt is exhausted: the UnicodeData pass begins
EndSc ==
    /\ phase = "sc"
    /\ phase' = "base"
    /\ UNCHANGED <<input, data, scCount, baseCount, cur, emitted, TITLECASE_TABLE, call,
                   iter, orig, fronts, backs>>

\* one line of UnicodeData.txt goes through the closure
ReadBaseLine ==
    /\ phase = "base"
    /\ baseCount < MaxBaseLines
    /\ \E line \in BaseLines :
         LET r == BaseRecord(data, line)
         IN /\ data' = r.data
            /\ phase' = IF r.panic THEN "aborted" ELSE "base"
            /\ cur' = [file |-> "base", line |-> line]
    /\ baseCount' = baseCount + 1
    /\ UNCHANGED <<input, scCount, emitted, TITLECASE_TABLE, call, iter, orig, fronts, backs>>

\* UnicodeData.txt is exhausted: the table is formatted and written to casing.rs
WriteTable ==
    /\ phase = "base"
    /\ emitted' = FormatTable(data)
    /\ phase' = "done"
    /\ UNCHANGED <<input, data, scCount, baseCount, cur, TITLECASE_TABLE, call, iter, orig,
                   fronts, backs>>

\* the crate is compiled with the generated file included
Compile ==
    /\ phase = "done"
    /\ IF \A i \in 1..Len(emitted) : Compiles(emitted[i])
       THEN /\ TITLECASE_TABLE' = [i \in 1..Len(emitted) |-> CompileEntry(emitted[i])]
            /\ phase' = "compiled"
       ELSE /\ TITLECASE_TABLE' = TITLECASE_TABLE
            /\ phase' = "compile_error"
    /\ UNCHANGED <<input, data, scCount, baseCount, cur, emitted, call, iter, orig, fronts, backs>>

----------------------------------------------------------------------------
(* Character-level calls of the runtime *)

CallToTitlecase ==
    /\ phase = "compiled"
    /\ \E c \in QueryChars :
         call' = [op |-> "to_titlecase", c |-> c, out |-> to_titlecase(TITLECASE_TABLE, c),
                  flag |-> FALSE]
    /\ UNCHANGED <<input, phase, data, scCount, baseCount, cur, emitted, TITLECASE_TABLE,
                   iter, orig, fronts, backs>>

CallToTitlecaseTrOrAz ==
    /\ phase = "compiled"
    /\ \E c \in QueryChars :
         call' = [op |-> "to_titlecase_tr_or_az", c |-> c,
                  out |-> to_titlecase_tr_or_az(TITLECASE_TABLE, c), flag |-> FALSE]
    /\ UNCHANGED <<input, phase, data, scCount, baseCount, cur, emitted, TITLECASE_TABLE,
                   iter, orig, fronts, backs>>

CallIsTitlecase ==
    /\ phase = "compiled"
    /\ \E c \in QueryChars :
         call' = [op |-> "is_titlecase", c |-> c, out |-> <<>>,
                  flag |-> is_titlecase(TITLECASE_TABLE, c)]
    /\ UNCHANGED <<input, phase, data, scCount, baseCount, cur, emitted, TITLECASE_TABLE,
                   iter, orig, fronts, backs>>

\* TitleCase::to_titlecase for char: ToTitleCase(CaseMappingIter::new(to_titlecase(c)))
CharToTitlecase ==
    /\ phase = "compiled"
    /\ \E c \in QueryChars :
         LET chars == to_titlecase(TITLECASE_TABLE, c)
         IN /\ call' = [op |-> "char::to_titlecase", c |-> c, out |-> chars, flag |-> FALSE]
            /\ iter' = CaseMappingIter_new(chars)
            /\ orig' = CaseMappingIter_new(chars).chars
    /\ fronts' = <<>>
    /\ backs' = <<>>
    /\ UNCHANGED <<input, phase, data, scCount, baseCount, cur, emitted, TITLECASE_TABLE>>

\* CaseMappingIter::new on an arbitrary array
IterNew ==
    /\ phase = "compiled"
    /\ \E a \in IterChars, b \in IterChars, c \in IterChars :
         /\ call' = [op |-> "CaseMappingIter::new", c |-> NUL, out |-> <<a, b, c>>,
                     flag |-> FALSE]
         /\ iter' = CaseMappingIter_new(<<a, b, c>>)
         /\ orig' = CaseMappingIter_new(<<a, b, c>>).chars
    /\ fronts' = <<>>
    /\ backs' = <<>>
    /\ UNCHANGED <<input, phase, data, scCount, baseCount, cur, emitted, TITLECASE_TABLE>>

IterNext ==
    /\ phase = "compiled"
    /\ LET r == next(iter)
       IN /\ iter' = r.iter
          /\ call' = [op |-> "next", c |-> NUL, out |-> r.ret, flag |-> FALSE]
          /\ fronts' = fronts \o r.ret
    /\ UNCHANGED <<input, phase, data, scCount, baseCount, cur, emitted, TITLECASE_TABLE,
                   orig, backs>>

IterNextBack ==
    /\ phase = "compiled"
    /\ LET r == next_back(iter)
       IN /\ iter' = r.iter
          /\ call' = [op |-> "next_back", c |-> NUL, out |-> r.ret, flag |-> FALSE]
          /\ backs' = backs \o r.ret
    /\ UNCHANGED <<input, phase, data, scCount, baseCount, cur, emitted, TITLECASE_TABLE,
                   orig, fronts>>

----------------------------------------------------------------------------
(* Specifications *)

\* the builder, the compilation of its output, and lookups in the table it produced
Next ==
    \/ ReadScLine
    \/ EndSc
    \/ ReadBaseLine
    \/ WriteTable
    \/ Compile
    \/ CallToTitlecase
    \/ CallToTitlecaseTrOrAz
    \/ CallIsTitlecase

Spec == InitBuild /\ [][Next]_vars

\* lookups in an arbitrary table sorted strictly ascending by key
InitLookup ==
    /\ phase = "compiled"
    /\ data = <<>>
    /\ scCount = 0
    /\ baseCount = 0
    /\ cur = NoLine
    /\ emitted = <<>>
    /\ TITLECASE_TABLE \in SortedTables
    /\ call = NoCall
    /\ iter = Zero
    /\ orig = <<>>
    /\ fronts = <<>>
    /\ backs = <<>>
    /\ input = <<>>

NextLookup ==
    \/ CallToTitlecase
    \/ CallToTitlecaseTrOrAz
    \/ CallIsTitlecase

SpecLookup == InitLookup /\ [][NextLookup]_vars

\* the case-mapping cursor, from any of its states
InitIter ==
    /\ phase = "compiled"
    /\ data = <<>>
    /\ scCount = 0
    /\ baseCount = 0
    /\ cur = NoLine
    /\ emitted = <<>>
    /\ TITLECASE_TABLE \in {t \in SortedTables : Len(t) <= 1}
    /\ call = NoCall
    /\ iter \in IterStates
    /\ orig = iter.chars
    /\ fronts = <<>>
    /\ backs = <<>>
    /\ input = <<>>

NextIter ==
    \/ CharToTitlecase
    \/ IterNew
    \/ IterNext
    \/ IterNextBack

SpecIter == InitIter /\ [][NextIter]_vars

----------------------------------------------------------------------------
(* Vocabulary of the properties *)

\* the mapping a linear scan of the table finds for c
LinearLookup(t, c) ==
    IF \E i \in 1..Len(t) : t[i][1] = c
    THEN t[CHOOSE i \in 1..Len(t) : t[i][1] = c][2]
    ELSE <<c, NUL, NUL>>

StrictlyAscending(keys) ==
    \A i \in 1..(Len(keys) - 1) : keys[i] # Err /\ keys[i] < keys[i + 1]

LineStep == scCount' # scCount \/ baseCount' # baseCount

Reverse(s) == [i \in 1..Len(s) |-> s[Len(s) + 1 - i]]

----------------------------------------------------------------------------
(* Properties of the lookups, under SpecLookup *)

\* C1: in every table sorted strictly ascending by key, to_titlecase(c) returns
\* the stored mapping of c when c is a key and [c, NUL, NUL] when it is not: the
\* binary search agrees with a linear lookup.
C1_LookupAgreesWithLinearScan ==
    call.op = "to_titlecase" => call.out = LinearLookup(TITLECASE_TABLE, call.c)

\* a hit on the last entry of a table of at least three entries
C1_Witness ==
    /\ call.op = "to_titlecase"
    /\ Len(TITLECASE_TABLE) >= 3
    /\ call.c = TITLECASE_TABLE[Len(TITLECASE_TABLE)][1]
    /\ call.out = TITLECASE_TABLE[Len(TITLECASE_TABLE)][2]

\* C2: to_titlecase_tr_or_az(c) equals to_titlecase(c) for every c other than
\* U+0069, and is [U+0130, NUL, NUL] for U+0069 whatever the table holds for it.
C2_TrAzDiffersOnlyOnSmallI ==
    call.op = "to_titlecase_tr_or_az" =>
        IF call.c = SMALL_I
        THEN call.out = <<CAPITAL_I_DOT, NUL, NUL>>
        ELSE call.out = to_titlecase(TITLECASE_TABLE, call.c)

\* the tr/az call on U+0069 with a table that maps U+0069 to something else
C2_Witness ==
    /\ call.op = "to_titlecase_tr_or_az"
    /\ call.c = SMALL_I
    /\ \E i \in 1..Len(TITLECASE_TABLE) :
         TITLECASE_TABLE[i][1] = SMALL_I /\ TITLECASE_TABLE[i][2] # call.out

----------------------------------------------------------------------------
(* Properties of the builder and of the table it produces, under Spec *)

\* C3: for the table the builder produces, is_titlecase(c) is true exactly
\* when the first slot of to_titlecase(c) equals c.
C3_IsTitlecaseConsistent ==
    call.op = "is_titlecase" =>
        (call.flag <=> to_titlecase(TITLECASE_TABLE, call.c)[1] = call.c)

\* C4: whenever the builder finishes, the emitted table is sorted strictly
\* ascending by source codepoint, so no key appears twice; the compiled table
\* is sorted likewise.
C4_EmittedTableSorted ==
    /\ phase \in {"done", "compiled", "compile_error"} =>
         StrictlyAscending([i \in 1..Len(emitted) |-> EscapeValue(emitted[i][1])])
    /\ phase = "compiled" =>
         /\ Len(TITLECASE_TABLE) = Len(emitted)
         /\ StrictlyAscending([i \in 1..Len(TITLECASE_TABLE) |-> TITLECASE_TABLE[i][1]])

\* a compiled table of two entries or more whose smallest key came from the
\* last line read
C4_Witness ==
    /\ phase = "compiled"
    /\ Len(TITLECASE_TABLE) >= 2
    /\ cur.file = "base"
    /\ ParseCodePoint(Split(cur.line, ";")[1]) = TITLECASE_TABLE[1][1]

\* C5: whenever the builder finishes, every entry of the table has mapping[0]
\* different from its source codepoint.
C5_NoSelfMapping ==
    phase = "compiled" =>
        \A i \in 1..Len(TITLECASE_TABLE) : TITLECASE_TABLE[i][2][1] # TITLECASE_TABLE[i][1]

\* a SpecialCasing.txt record with a condition list: a fifth field that holds
\* something other than the trailing comment
HasCondition(line) ==
    /\ ScKept(line)
    /\ Len(Split(line, ";")) >= 5
    /\ LET cond == split_ascii_whitespace(Split(line, ";")[5])
       IN cond # <<>> /\ Head(cond[1]) # "#"

\* C6: a SpecialCasing.txt record that carries a condition list is skipped: it
\* adds no entry to the table and takes no part in the conflict check.
C6_ConditionalRecordsSkipped ==
    [][(scCount' # scCount /\ HasCondition(cur'.line)) =>
           (data' = data /\ phase' # "aborted")]_vars

\* the source field of a line, and whether it parses as a hexadecimal scalar value
SourceField(c) == Split(c.line, ";")[1]
BadSource(c) == ParseCodePoint(SourceField(c)) = Err

\* the mapping field of a line: the third field of a SpecialCasing.txt record,
\* the last field of a UnicodeData.txt record
HasMappingField(c) ==
    IF c.file = "sc" THEN Len(Split(c.line, ";")) >= 3 ELSE Len(Split(c.line, ";")) >= 2

MappingTokens(c) ==
    IF c.file = "sc" THEN split_ascii_whitespace(Split(c.line, ";")[3])
    ELSE LET last == Split(c.line, ";")[Len(Split(c.line, ";"))]
         IN IF last = <<>> THEN <<>> ELSE <<last>>

\* the line is a record the builder has to store: it is not filtered out, its
\* mapping field is not empty and its first mapping differs, as text, from
\* the source field
YieldsRecord(c) ==
    /\ c.file = "sc" => ScKept(c.line)
    /\ HasMappingField(c)
    /\ MappingTokens(c) # <<>>
    /\ MappingTokens(c)[1] # SourceField(c)

\* the three slots the record of the line asks for
RecordSlots(c) ==
    LET t == MappingTokens(c)
    IN <<t[1], IF Len(t) >= 2 THEN t[2] ELSE <<"0">>, IF Len(t) >= 3 THEN t[3] ELSE <<"0">>>>

\* C7: a record for a source codepoint that already has a mapping aborts the
\* build if any of its three slots differs from the stored ones and leaves the
\* table unchanged, without error, if all three are identical; no step that
\* does not abort changes a stored mapping, and an aborted build emits no table.
C7_ConflictAbortsIdenticalIsNoOp ==
    /\ [][LineStep =>
            /\ (YieldsRecord(cur') /\ ~BadSource(cur')
                  /\ BTreeGet(data, ParseCodePoint(SourceField(cur'))) # None) =>
                 IF BTreeGet(data, ParseCodePoint(SourceField(cur'))) = RecordSlots(cur')
                 THEN data' = data /\ phase' = phase
                 ELSE phase' = "aborted"
            /\ phase' # "aborted" =>
                 \A i \in 1..Len(data) : BTreeGet(data', data[i][1]) = data[i][2]]_vars
    /\ [][phase = "aborted" => phase' = "aborted"]_vars
    /\ [](phase = "aborted" => emitted = <<>> /\ TITLECASE_TABLE = <<>>)

\* the build aborted on a UnicodeData.txt record whose source codepoint parses
\* and which already had a mapping with a different second slot
C7_Witness ==
    /\ phase = "aborted"
    /\ cur = [file |-> "base", line |-> UdSharpS]
    /\ BTreeGet(data, 223) = <<<<"0", "0", "5", "3">>, <<"0">>, <<"0">>>>
    /\ scCount >= 1

\* a malformed line: one that is not a comment or blank and whose source
\* codepoint does not parse as a hexadecimal scalar value or whose mapping
\* field is missing
Malformed(c) ==
    /\ IF c.file = "sc" THEN ScKept(c.line) ELSE c.line # <<>>
    /\ BadSource(c) \/ ~HasMappingField(c)

\* C8 as stated: every malformed line, in either file, makes the build fail.
C8_MalformedLineAborts ==
    [][(LineStep /\ Malformed(cur')) => phase' = "aborted"]_vars

\* the malformed lines the builder cannot get past: a SpecialCasing.txt record
\* without its third field, and a record it has to store whose source
\* codepoint does not parse
FatalMalformed(c) ==
    \/ c.file = "sc" /\ ScKept(c.line) /\ ~HasMappingField(c)
    \/ YieldsRecord(c) /\ BadSource(c)

\* C8 amended: a malformed line makes the build fail when it is a
\* SpecialCasing.txt record with fewer than three fields or a record to store
\* (mapping field non-empty and different, as text, from the source field) whose
\* source codepoint does not parse; every other malformed line is skipped
\* without error and without changing the table.
C8_MalformedLineAbortsWhenStored ==
    [][(LineStep /\ Malformed(cur')) =>
           IF FatalMalformed(cur') THEN phase' = "aborted"
           ELSE phase' = phase /\ data' = data]_vars

\* a table was written although the last line read has a source codepoint that
\* is no scalar value
C8_Witness ==
    /\ phase = "done"
    /\ cur = [file |-> "base", line |-> UdSurrogateNoTitle]
    /\ Malformed(cur)

----------------------------------------------------------------------------
(* Properties of CaseMappingIter, under SpecIter *)

\* the state is the one CaseMappingIter::new just built from the array call.out
Constructed == call.op \in {"char::to_titlecase", "CaseMappingIter::new"}

NonNulSlots(a) == {i \in 1..3 : a[i] # NUL}

\* the NUL slots of the array are trailing ones and the first slot is not NUL
SentinelsTrail(a) == a[1] # NUL /\ (a[2] = NUL => a[3] = NUL)

\* C9 as stated: for every array given to CaseMappingIter::new, the state holds
\* exactly the non-NUL slots: its length is their number and it stores no NUL.
C9_StateHoldsExactlyNonNulSlots ==
    Constructed =>
        /\ size_hint(iter) = Cardinality(NonNulSlots(call.out))
        /\ \A i \in 1..Len(iter.chars) : iter.chars[i] # NUL

\* C9 amended: for every array whose first slot is not NUL and whose NUL slots
\* are trailing, the state holds exactly the non-NUL slots, in order; for
\* [NUL, NUL, NUL], which to_titlecase returns for U+0000, the state is One(NUL),
\* of length 1.
C9_StateHoldsNonNulSlotsOrOneNul ==
    Constructed =>
        /\ SentinelsTrail(call.out) =>
             /\ size_hint(iter) = Cardinality(NonNulSlots(call.out))
             /\ \A i \in 1..Len(iter.chars) : iter.chars[i] # NUL
             /\ iter.chars = SubSeq(call.out, 1, Cardinality(NonNulSlots(call.out)))
        /\ call.out = <<NUL, NUL, NUL>> => iter = One(NUL) /\ size_hint(iter) = 1

\* TitleCase::to_titlecase was called on U+0000 and built an iterator from
\* [NUL, NUL, NUL]
C9_Witness ==
    /\ call.op = "char::to_titlecase"
    /\ call.c = NUL
    /\ call.out = <<NUL, NUL, NUL>>
    /\ iter.tag = "One"

\* C10: under any interleaving of next and next_back, from any state of the
\* cursor: what next returned, then what is left, then what next_back returned
\* in reverse, is the original sequence; the remaining count is exact; a call
\* that returns a codepoint lowers the count by one; on an empty cursor every
\* call returns nothing and leaves it empty.
C10_DoubleEndedConsumption ==
    /\ [](/\ fronts \o iter.chars \o Reverse(backs) = orig
          /\ size_hint(iter) = Len(iter.chars))
    /\ [][call'.op \in {"next", "next_back"} =>
            /\ call'.out # <<>> => size_hint(iter') = size_hint(iter) - 1
            /\ call'.out = <<>> => iter' = iter
            /\ iter.tag = "Zero" => call'.out = <<>> /\ iter'.tag = "Zero"
            /\ iter.tag # "Zero" => call'.out # <<>>]_vars

\* a cursor of three codepoints emptied from both ends, then asked once more
C10_Witness ==
    /\ Len(orig) = 3
    /\ orig[1] # orig[3]
    /\ Len(fronts) >= 1
    /\ Len(backs) >= 1
    /\ iter.tag = "Zero"
    /\ call.op = "next_back"
    /\ call.out = <<>>

----------------------------------------------------------------------------
(* The case primitives of the standard library, on the codepoints the      *)
(* string-level calls are made with                                         *)

\* char::to_lowercase: the codepoints its iterator yields (one or more)
to_lowercase(c) ==
    CASE c = 65 -> <<97>>
      [] c = 70 -> <<102>>
      [] c = 73 -> <<105>>
      [] c = 83 -> <<115>>
      [] c = 84 -> <<116>>
      [] c = 304 -> <<105, 775>>
      [] c = 452 -> <<454>>
      [] c = 453 -> <<454>>
      [] OTHER -> <<c>>

\* char::is_lowercase
is_lowercase(c) == c \in {97, 102, 105, 108, 115, 116, 223, 233, 305, 454, 64260}

----------------------------------------------------------------------------
(* src/lib.rs: tr_az::to_lowercase_tr_or_az and the string-level policies *)

\* a tr/az lowercase without the arm for U+0049
to_lowercase_tr_or_az_no_capital_i(c) ==
    CASE c = CAPITAL_I_DOT -> SMALL_I
      [] OTHER -> IF to_lowercase(c) = <<>> THEN Err ELSE Head(to_lowercase(c))

\* tr_az::to_lowercase_tr_or_az; Err stands for the panic of unwrap on None
to_lowercase_tr_or_az(c) ==
    CASE c = CAPITAL_I -> SMALL_DOTLESS_I
      [] c = CAPITAL_I_DOT -> SMALL_I
      [] OTHER -> IF to_lowercase(c) = <<>> THEN Err ELSE Head(to_lowercase(c))

RECURSIVE Drain(_)
\* what a CaseMappingIter yields when next is called until it returns None
Drain(it) ==
    IF next(it).ret = <<>> THEN <<>>
    ELSE next(it).ret \o Drain(next(it).iter)

\* iter.next().into_iter().flat_map(f): nothing for None, the codepoints of the
\* iterator built from the array for Some(c)
TitleFirst(first, array) ==
    IF first = <<>> THEN <<>> ELSE Drain(CaseMappingIter_new(array))

RECURSIVE FlatMapLowercase(_)
\* iter.flat_map(char::to_lowercase)
FlatMapLowercase(rest) ==
    IF rest = <<>> THEN <<>>
    ELSE to_lowercase(Head(rest)) \o FlatMapLowercase(Tail(rest))

\* iter.map(to_lowercase_tr_or_az)
MapLowercaseTrOrAz(rest) == [i \in 1..Len(rest) |-> to_lowercase_tr_or_az(rest[i])]

RECURSIVE AllLowercase(_)
\* iter.all(char::is_lowercase)
AllLowercase(rest) ==
    IF rest = <<>> THEN TRUE
    ELSE is_lowercase(Head(rest)) /\ AllLowercase(Tail(rest))

\* self.chars() and the first iter.next(): Some(first) and the rest, or None
First(s) == IF s = <<>> THEN <<>> ELSE <<Head(s)>>
Rest(s) == IF s = <<>> THEN <<>> ELSE Tail(s)

\* a to_titlecase that chains the whole string after the title-cased first character
str_to_titlecase_chain_whole(t, s) ==
    TitleFirst(First(s), IF s = <<>> THEN <<>> ELSE to_titlecase(t, Head(s))) \o s

\* StrTitleCase::to_titlecase for str
str_to_titlecase(t, s) ==
    TitleFirst(First(s), IF s = <<>> THEN <<>> ELSE to_titlecase(t, Head(s))) \o Rest(s)

\* a lower_rest that lowercases the rest with the tr/az mapping
str_to_titlecase_lower_rest_tr_rest(t, s) ==
    TitleFirst(First(s), IF s = <<>> THEN <<>> ELSE to_titlecase(t, Head(s)))
        \o MapLowercaseTrOrAz(Rest(s))

\* StrTitleCase::to_titlecase_lower_rest for str
str_to_titlecase_lower_rest(t, s) ==
    TitleFirst(First(s), IF s = <<>> THEN <<>> ELSE to_titlecase(t, Head(s)))
        \o FlatMapLowercase(Rest(s))

\* StrTitleCase::to_titlecase_tr_or_az for str
str_to_titlecase_tr_or_az(t, s) ==
    TitleFirst(First(s), IF s = <<>> THEN <<>> ELSE to_titlecase_tr_or_az(t, Head(s)))
        \o Rest(s)

\* StrTitleCase::to_titlecase_tr_or_az_lower_rest for str
str_to_titlecase_tr_or_az_lower_rest(t, s) ==
    TitleFirst(First(s), IF s = <<>> THEN <<>> ELSE to_titlecase_tr_or_az(t, Head(s)))
        \o MapLowercaseTrOrAz(Rest(s))

\* StrTitleCase::starts_titlecase for str: map_or(false, is_titlecase) on the first character
starts_titlecase(t, s) ==
    IF First(s) = <<>> THEN FALSE ELSE is_titlecase(t, Head(s))

\* a rest_lower whose all() runs over the whole string
starts_titlecase_rest_lower_all_chars(t, s) ==
    (IF First(s) = <<>> THEN FALSE ELSE is_titlecase(t, Head(s))) /\ AllLowercase(s)

\* StrTitleCase::starts_titlecase_rest_lower for str
starts_titlecase_rest_lower(t, s) ==
    (IF First(s) = <<>> THEN FALSE ELSE is_titlecase(t, Head(s))) /\ AllLowercase(Rest(s))

----------------------------------------------------------------------------
(* String-level calls *)

\* the codepoints the strings are made of
StrChars == {0, 65, 73, 97, 105, 223, 304}

\* every string of at most MaxStrLen codepoints over the set cs
StringsOver(cs) == UNION {[1..n -> cs] : n \in 0..MaxStrLen}

\* a string-level call on the string `input` in a compiled crate: its name and
\* what it returns
StrCall(op, out, flag) ==
    /\ phase = "compiled"
    /\ call' = [op |-> op, c |-> NUL, out |-> out, flag |-> flag]
    /\ UNCHANGED <<phase, data, scCount, baseCount, cur, emitted, TITLECASE_TABLE,
                   iter, orig, fronts, backs, input>>

StrToTitlecase ==
    StrCall("str::to_titlecase", str_to_titlecase(TITLECASE_TABLE, input), FALSE)

StrToTitlecaseLowerRest ==
    StrCall("str::to_titlecase_lower_rest",
            str_to_titlecase_lower_rest(TITLECASE_TABLE, input), FALSE)

StrToTitlecaseTrOrAz ==
    StrCall("str::to_titlecase_tr_or_az",
            str_to_titlecase_tr_or_az(TITLECASE_TABLE, input), FALSE)

StrToTitlecaseTrOrAzLowerRest ==
    StrCall("str::to_titlecase_tr_or_az_lower_rest",
            str_to_titlecase_tr_or_az_lower_rest(TITLECASE_TABLE, input), FALSE)

StrStartsTitlecase ==
    StrCall("str::starts_titlecase", <<>>, starts_titlecase(TITLECASE_TABLE, input))

StrStartsTitlecaseRestLower ==
    StrCall("str::starts_titlecase_rest_lower", <<>>,
            starts_titlecase_rest_lower(TITLECASE_TABLE, input))

CallToLowercaseTrOrAz ==
    /\ phase = "compiled"
    /\ \E c \in StrChars \cup QueryChars :
         call' = [op |-> "to_lowercase_tr_or_az", c |-> c,
                  out |-> <<to_lowercase_tr_or_az(c)>>, flag |-> FALSE]
    /\ UNCHANGED <<phase, data, scCount, baseCount, cur, emitted, TITLECASE_TABLE,
                   iter, orig, fronts, backs, input>>

\* the string-level policies on every string over StrChars, with tables of at most one entry
InitStr ==
    /\ phase = "compiled"
    /\ data = <<>>
    /\ scCount = 0
    /\ baseCount = 0
    /\ cur = NoLine
    /\ emitted = <<>>
    /\ TITLECASE_TABLE \in {t \in SortedTables : Len(t) <= 1}
    /\ call = NoCall
    /\ iter = Zero
    /\ orig = <<>>
    /\ fronts = <<>>
    /\ backs = <<>>
    /\ input \in StringsOver(StrChars)

NextStr ==
    \/ StrToTitlecase
    \/ StrToTitlecaseLowerRest
    \/ StrToTitlecaseTrOrAz
    \/ StrToTitlecaseTrOrAzLowerRest
    \/ StrStartsTitlecase
    \/ StrStartsTitlecaseRestLower
    \/ CallToLowercaseTrOrAz

SpecStr == InitStr /\ [][NextStr]_vars

----------------------------------------------------------------------------
(* Properties of the string-level policies, under SpecStr *)

\* the title-case expansion an array stands for: its slots up to the last
\* non-NUL one, and at least the first slot
Expansion(a) ==
    SubSeq(a, 1, CHOOSE n \in 1..3 :
                    /\ n = 1 \/ a[n] # NUL
                    /\ \A m \in (n + 1)..3 : a[m] = NUL)

\* the expected result of a title-first policy: nothing for the empty string,
\* else the expansion of the first character followed by the mapped rest
TitleFirstThen(array, rest) ==
    IF input = <<>> THEN <<>> ELSE Expansion(array) \o rest

TrAzLower(c) ==
    IF c = CAPITAL_I THEN SMALL_DOTLESS_I
    ELSE IF c = CAPITAL_I_DOT THEN SMALL_I
    ELSE to_lowercase(c)[1]

C13_TrAzLowercase ==
    call.op = "to_lowercase_tr_or_az" =>
        /\ Len(call.out) = 1
        /\ call.out[1] # Err
        /\ call.out[1] = TrAzLower(call.c)

\* the call on U+0049
C13_Witness ==
    /\ call.op = "to_lowercase_tr_or_az"
    /\ call.c = CAPITAL_I
    /\ call.out = <<SMALL_DOTLESS_I>>

\* C14: starts_titlecase(s) is true exactly when s is not empty and its first
\* character satisfies is_titlecase; starts_titlecase_rest_lower(s) is true
\* exactly when, in addition, every remaining character satisfies the standard
\* lowercase predicate; both are false for the empty string.
C14_StartsTitlecase ==
    /\ call.op = "str::starts_titlecase" =>
         (call.flag <=> (input # <<>> /\ is_titlecase(TITLECASE_TABLE, input[1])))
    /\ call.op = "str::starts_titlecase_rest_lower" =>
         (call.flag <=> /\ input # <<>>
                        /\ is_titlecase(TITLECASE_TABLE, input[1])
                        /\ \A i \in 2..Len(input) : is_lowercase(input[i]))

\* a two-character string accepted although its first character is not lowercase
C14_Witness ==
    /\ call.op = "str::starts_titlecase_rest_lower"
    /\ call.flag
    /\ Len(input) = 2
    /\ ~is_lowercase(input[1])

----------------------------------------------------------------------------
(* Title-casing twice, on the table the builder produced *)

\* the codepoints of the strings title-cased on the built table
BuildStrChars == {223, 233}

\* a caller picks a string
TakeString ==
    /\ phase = "compiled"
    /\ input' \in StringsOver(BuildStrChars)
    /\ call' = NoCall
    /\ UNCHANGED <<phase, data, scCount, baseCount, cur, emitted, TITLECASE_TABLE,
                   iter, orig, fronts, backs>>

\* to_titlecase is called on what to_titlecase returned
StrToTitlecaseOfResult ==
    /\ phase = "compiled"
    /\ call.op = "str::to_titlecase"
    /\ input' = call.out
    /\ call' = [op |-> "str::to_titlecase of to_titlecase", c |-> NUL,
                out |-> str_to_titlecase(TITLECASE_TABLE, call.out), flag |-> FALSE]
    /\ UNCHANGED <<phase, data, scCount, baseCount, cur, emitted, TITLECASE_TABLE,
                   iter, orig, fronts, backs>>

\* starts_titlecase is called on what to_titlecase returned
StrStartsTitlecaseOfResult ==
    /\ phase = "compiled"
    /\ call.op = "str::to_titlecase"
    /\ input' = call.out
    /\ call' = [op |-> "str::starts_titlecase of to_titlecase", c |-> NUL, out |-> <<>>,
                flag |-> starts_titlecase(TITLECASE_TABLE, call.out)]
    /\ UNCHANGED <<phase, data, scCount, baseCount, cur, emitted, TITLECASE_TABLE,
                   iter, orig, fronts, backs>>

NextBuildStr ==
    \/ ReadScLine
    \/ EndSc
    \/ ReadBaseLine
    \/ WriteTable
    \/ Compile
    \/ TakeString
    \/ StrToTitlecase
    \/ StrToTitlecaseOfResult
    \/ StrStartsTitlecaseOfResult

SpecBuildStr == InitBuild /\ [][NextBuildStr]_vars

\* C15 as stated: for every table the builder can emit, title-casing what
\* to_titlecase returned changes nothing, and what to_titlecase returned for a
\* non-empty string starts with a title-case character.
C15_TitlecaseIdempotent ==
    /\ call.op = "str::to_titlecase of to_titlecase" => call.out = input
    /\ (call.op = "str::starts_titlecase of to_titlecase" /\ input # <<>>) => call.flag

\* the first codepoint of every stored mapping is not a key of the table
NoMappingStartsWithKey ==
    \A i \in 1..Len(TITLECASE_TABLE) : \A j \in 1..Len(TITLECASE_TABLE) :
        TITLECASE_TABLE[i][2][1] # TITLECASE_TABLE[j][1]

\* C15 amended: title-casing is idempotent, and its result starts with a
\* title-case character, for every emitted table in which the first codepoint
\* of every stored mapping is not a key; the builder does not make every table so.
C15_TitlecaseIdempotentWhenNoMappingStartsWithKey ==
    NoMappingStartsWithKey => C15_TitlecaseIdempotent

\* to_titlecase was applied to its own result, which starts with the first
\* codepoint of a stored mapping and has a second codepoint
C15_Witness ==
    /\ call.op = "str::to_titlecase of to_titlecase"
    /\ NoMappingStartsWithKey
    /\ Len(input) >= 2
    /\ \E i \in 1..Len(TITLECASE_TABLE) : TITLECASE_TABLE[i][2][1] = input[1]
    /\ call.out = input

====
